---- MODULE Spec2Model ----
(***************************************************************************)
(* Model of the cheat-table script merge engine (src/merge.py) and of the   *)
(* cheat-table cleanup pass (src/cleanALL.py).                             *)
(*                                                                         *)
(* Texts are sequences of one-character strings, so that the regular       *)
(* expression DYN_PATTERN, str.replace, str.strip and Lua's string.format  *)
(* are modelled character by character.                                    *)
(***************************************************************************)
EXTENDS Naturals, Sequences, FiniteSets, TLC

VARIABLES
    pc,          \* position of the modelled run
    text,        \* input of process_section (extractor specification)
    proc,        \* result of process_section(text)
    part,        \* result of build_script_part on proc
    evald,       \* result of evaluating part with the extracted tokens
    asm1,        \* AssemblerScript text of version 1
    asm2,        \* AssemblerScript text of version 2
    merged,      \* result of merge_asm_scripts(asm1, asm2)
    disableInfo, \* Lua global of the generated script
    lastRun,     \* what the last run of a phase of the generated script did
    persisted,   \* state persisted by a successful activation run, no
                 \* deactivation run having followed it yet
    asm_map1,    \* identifier -> AssemblerScript element text, document 1
    asm_map2,    \* identifier -> AssemblerScript element text, document 2
    given,       \* the two maps as they were passed to merge_cheat_entries
    todo,        \* identifiers of asm_map1 still to be processed, in order
    counts,      \* merged_count, skipped_count, error_count
    log,         \* per-identifier outcome, in processing order
    returned,    \* value merge_cheat_entries returned
    tokens_v1,   \* tokens of version 1 given to build_lua_config_table
    tokens_v2,   \* tokens of version 2 given to build_lua_config_table
    config,      \* what build_lua_config_table returned or raised
    asm,         \* AssemblerScript text given to split_asm_sections
    split,       \* the two sections split_asm_sections returned
    tree1,       \* CheatEntry elements of the first CT file, in document order
    tree2,       \* CheatEntry elements of the second CT file
    output,      \* how main ended: file written, warning given, exit status
    files,       \* cleanup: the lines read from each .CT file, in walk order
    written,     \* cleanup: the lines written back, one entry per file done
    id_counter,                 \* cleanup globals, as the last file left them
    binds_found,
    parkour_mode_found,
    extra_found,
    vault_landing_found,
    inside_userdefined_symbols,
    inside_cheatcodes,
    processed_lines

extractVars == <<text, proc, part, evald>>
scriptVars == <<asm1, asm2, merged>>
runVars == <<disableInfo, lastRun, persisted>>
entryVars == <<asm_map1, asm_map2, given, todo, counts, log, returned>>

tableVars == <<tokens_v1, tokens_v2, config>>
splitVars == <<asm, split>>
mainVars == <<tree1, tree2, output>>
cleanGlobals == <<id_counter, binds_found, parkour_mode_found, extra_found,
                  vault_landing_found, inside_userdefined_symbols,
                  inside_cheatcodes, processed_lines>>
cleanVars == <<files, written, cleanGlobals>>
auxVars == <<tableVars, splitVars, mainVars, cleanVars>>
coreVars == <<extractVars, scriptVars, runVars, entryVars>>

vars == <<pc, coreVars, auxVars>>

\* an unset variable, Python's None and Lua's nil
None == [none |-> TRUE]

-----------------------------------------------------------------------------
(* Characters and text helpers *)

Whitespace == {" ", "\t", "\n", "\r"}

HexDigits == {"0", "1", "2", "3", "4", "5", "6", "7", "8", "9",
              "a", "b", "c", "d", "e", "f", "A", "B", "C", "D", "E", "F"}

\* characters excluded from an unquoted module name: [^"+\s\[\](){},]
NameExcluded == {"\"", "+", "[", "]", "(", ")", "{", "}", ","} \cup Whitespace

\* re.IGNORECASE on the letters the patterns name
Lower(c) ==
    CASE c = "E" -> "e" [] c = "X" -> "x" [] c = "D" -> "d" [] c = "I" -> "i"
      [] c = "S" -> "s" [] c = "A" -> "a" [] c = "B" -> "b" [] c = "L" -> "l"
      [] c = "N" -> "n" [] OTHER -> c

LowerSeq(s) == [i \in 1..Len(s) |-> Lower(s[i])]

\* s[from:] of Python, 1-based
From(s, from) == SubSeq(s, from, Len(s))

StartsWith(s, p) == Len(s) >= Len(p) /\ SubSeq(s, 1, Len(p)) = p

\* "sep".join(ss)
RECURSIVE Join(_, _)
Join(ss, sep) ==
    IF ss = <<>> THEN <<>>
    ELSE IF Len(ss) = 1 THEN ss[1]
    ELSE ss[1] \o sep \o Join(Tail(ss), sep)

\* str.replace(old, new): every non-overlapping occurrence, left to right
RECURSIVE Replace(_, _, _)
Replace(s, old, new) ==
    IF Len(s) < Len(old) THEN s
    ELSE IF SubSeq(s, 1, Len(old)) = old
         THEN new \o Replace(From(s, Len(old) + 1), old, new)
         ELSE <<s[1]>> \o Replace(Tail(s), old, new)

RECURSIVE LStrip(_)
LStrip(s) == IF s # <<>> /\ s[1] \in Whitespace THEN LStrip(Tail(s)) ELSE s

RECURSIVE RStrip(_)
RStrip(s) ==
    IF s # <<>> /\ s[Len(s)] \in Whitespace
    THEN RStrip(SubSeq(s, 1, Len(s) - 1)) ELSE s

Strip(s) == RStrip(LStrip(s))

-----------------------------------------------------------------------------
(* DYN_PATTERN and process_section *)

PLACEHOLDER == <<"%", "s">>

DotExe == <<".", "e", "x", "e">>

\* first index >= i whose character is outside the set cs (Len(s)+1 if none)
RECURSIVE SkipWhile(_, _, _)
SkipWhile(s, i, cs) ==
    IF i <= Len(s) /\ s[i] \in cs THEN SkipWhile(s, i + 1, cs) ELSE i

\* first index >= i whose character is c (Len(s)+1 if none)
RECURSIVE IndexOf(_, _, _)
IndexOf(s, i, c) ==
    IF i <= Len(s) /\ s[i] # c THEN IndexOf(s, i + 1, c) ELSE i

AllChars(s) == {s[i] : i \in 1..Len(s)}

\* [A-Fa-f0-9]+ :?  starting at index h; the index after the match, 0 if none
HexTail(s, h) ==
    LET e == SkipWhile(s, h, HexDigits)
    IN  IF e = h THEN 0
        ELSE IF e <= Len(s) /\ s[e] = ":" THEN e + 1 ELSE e

\* "[^"]+\.exe"\+  at index i (s[i] is the opening quote)
QuotedAt(s, i) ==
    LET q == IndexOf(s, i + 1, "\"")
    IN  IF /\ q <= Len(s)
           /\ q - 5 >= i + 1
           /\ LowerSeq(SubSeq(s, q - 4, q - 1)) = DotExe
           /\ q + 1 <= Len(s)
           /\ s[q + 1] = "+"
        THEN HexTail(s, q + 2)
        ELSE 0

\* [^"+\s\[\](){},]+\.exe\+  at index i
UnquotedAt(s, i) ==
    LET j == SkipWhile(s, i, AllChars(s) \ NameExcluded)
    IN  IF /\ j <= Len(s)
           /\ s[j] = "+"
           /\ j - 5 >= i
           /\ LowerSeq(SubSeq(s, j - 4, j - 1)) = DotExe
        THEN HexTail(s, j + 1)
        ELSE 0

\* DYN_PATTERN anchored at index i: the index after the match, 0 if no match
DYN_PATTERN(s, i) ==
    IF s[i] = "\"" THEN QuotedAt(s, i)
    ELSE IF s[i] \notin NameExcluded THEN UnquotedAt(s, i)
    ELSE 0

\* pattern.finditer(text) from index i: the <<start, end>> pairs (end exclusive)
RECURSIVE finditer(_, _)
finditer(s, i) ==
    IF i > Len(s) THEN <<>>
    ELSE LET e == DYN_PATTERN(s, i)
         IN  IF e = 0 THEN finditer(s, i + 1)
             ELSE <<(<<i, e>>)>> \o finditer(s, e)

\* the loop body of process_section over the matches ms, last_index = last
RECURSIVE ProcessLoop(_, _, _)
ProcessLoop(s, ms, last) ==
    IF ms = <<>>
    THEN [template |-> From(s, last), dyn |-> <<>>]
    ELSE LET m    == Head(ms)
             rest == ProcessLoop(s, Tail(ms), m[2])
         IN  [template |-> SubSeq(s, last, m[1] - 1) \o PLACEHOLDER \o rest.template,
              dyn      |-> <<SubSeq(s, m[1], m[2] - 1)>> \o rest.dyn]

process_section(s) == ProcessLoop(s, finditer(s, 1), 1)

-----------------------------------------------------------------------------
(* build_lua_config_table *)

\* the escaping without its first replace: only the quotes are escaped
safe_val_quotes_only(val) == Replace(val, <<"\"">>, <<"\\", "\"">>)

\* val.replace('\\', '\\\\').replace('"', '\\"')
safe_val(val) == Replace(Replace(val, <<"\\">>, <<"\\", "\\">>), <<"\"">>, <<"\\", "\"">>)

\* the value Lua reads from the string literal "lit": \\ and \" are unescaped
RECURSIVE LuaStringValue(_)
LuaStringValue(lit) ==
    IF lit = <<>> THEN <<>>
    ELSE IF lit[1] = "\\" /\ Len(lit) >= 2
         THEN <<lit[2]>> \o LuaStringValue(From(lit, 3))
         ELSE <<lit[1]>> \o LuaStringValue(Tail(lit))

\* build_version_table: the literals of dynamic1 .. dynamicN, in list order
build_version_table(values) == [i \in 1..Len(values) |-> safe_val(values[i])]

\* the ValueError of line 81, or the two-row table and the count
build_lua_config_table(name, dyn_list_v1, dyn_list_v2) ==
    IF Len(dyn_list_v1) # Len(dyn_list_v2)
    THEN [ok |-> FALSE, name |-> name,
          count1 |-> Len(dyn_list_v1), count2 |-> Len(dyn_list_v2)]
    ELSE [ok |-> TRUE, name |-> name,
          table |-> <<build_version_table(dyn_list_v1),
                      build_version_table(dyn_list_v2)>>,
          n |-> Len(dyn_list_v1)]

-----------------------------------------------------------------------------
(* build_script_part and the evaluation of the fragment it emits *)

TEMP_PLACEHOLDER ==
    <<"_", "_", "T", "E", "M", "P", "_", "P", "L", "A", "C", "E",
      "H", "O", "L", "D", "E", "R", "_", "_">>

\* line 139
template_escaped(template) ==
    Replace(Replace(Replace(template, PLACEHOLDER, TEMP_PLACEHOLDER),
                    <<"%">>, <<"%", "%">>),
            TEMP_PLACEHOLDER, PLACEHOLDER)

\* the fast path writing the escaped template, as the format path does
build_script_part_escaped_literal(template, dyn_count, script_var, addr_prefix) ==
    [var |-> script_var, kind |-> IF dyn_count > 0 THEN "format" ELSE "literal",
     body |-> template_escaped(template),
     prefix |-> addr_prefix, keys |-> [i \in 1..dyn_count |-> i]]

\* The emitted Lua statement, by its parts: the variable it binds, whether the
\* value is a string.format call or the long string itself, the text between
\* "[==[\n" and "\n]==]", and the indices i of the arguments addr_prefix.dynamic<i>.
build_script_part(template, dyn_count, script_var, addr_prefix) ==
    IF dyn_count > 0
    THEN [var |-> script_var, kind |-> "format",
          body |-> template_escaped(template),
          prefix |-> addr_prefix, keys |-> [i \in 1..dyn_count |-> i]]
    ELSE [var |-> script_var, kind |-> "literal",
          body |-> template,
          prefix |-> addr_prefix, keys |-> <<>>]

\* Lua reads [==[\n body \n]==] as body followed by a line break: the line break
\* right after the opening bracket is skipped, the one before the closing kept.
LuaLongString(body) == body \o <<"\n">>

\* the closing bracket of the long strings the code writes
LONG_CLOSE == <<"]", "=", "=", "]">>

\* Lua ends a long string at the first closing bracket: a body that holds one
\* ends the string early, and what follows it is read as Lua code
ClosesEarly(body) ==
    \E i \in 1..Len(body) :
        /\ i + Len(LONG_CLOSE) - 1 <= Len(body)
        /\ SubSeq(body, i, i + Len(LONG_CLOSE) - 1) = LONG_CLOSE

\* Lua's string.format(fmt, args...): "%%" gives "%", "%s" takes the next
\* argument and raises "bad argument" when there is none; surplus arguments are
\* ignored.  Any other conversion does not occur after template_escaped.
RECURSIVE LuaFormat(_, _)
LuaFormat(fmt, args) ==
    IF fmt = <<>> THEN [ok |-> TRUE, out |-> <<>>]
    ELSE IF fmt[1] # "%"
    THEN LET r == LuaFormat(Tail(fmt), args)
         IN  IF r.ok THEN [ok |-> TRUE, out |-> <<fmt[1]>> \o r.out] ELSE r
    ELSE IF Len(fmt) = 1 THEN [ok |-> FALSE, out |-> <<>>]
    ELSE IF fmt[2] = "%"
    THEN LET r == LuaFormat(From(fmt, 3), args)
         IN  IF r.ok THEN [ok |-> TRUE, out |-> <<"%">> \o r.out] ELSE r
    ELSE IF fmt[2] = "s"
    THEN IF args = <<>> THEN [ok |-> FALSE, out |-> <<>>]
         ELSE LET r == LuaFormat(From(fmt, 3), Tail(args))
              IN  IF r.ok THEN [ok |-> TRUE, out |-> args[1] \o r.out] ELSE r
    ELSE [ok |-> FALSE, out |-> <<>>]

\* number of conversions of fmt that consume an argument ("%%" consumes none)
RECURSIVE ActivePoints(_)
ActivePoints(fmt) ==
    IF Len(fmt) < 2 THEN 0
    ELSE IF fmt[1] # "%" THEN ActivePoints(Tail(fmt))
    ELSE IF fmt[2] = "%" THEN ActivePoints(From(fmt, 3))
    ELSE 1 + ActivePoints(From(fmt, 3))

\* Evaluating the statement a fragment stands for, addr being the selected row
\* (the Lua values of dynamic1..dynamicN): the string bound to the variable.
EvalPart(p, addr) ==
    IF ClosesEarly(p.body) THEN [ok |-> FALSE, out |-> <<>>]
    ELSE IF p.kind = "format"
    THEN LuaFormat(LuaLongString(p.body), [i \in 1..Len(p.keys) |-> addr[p.keys[i]]])
    ELSE [ok |-> TRUE, out |-> LuaLongString(p.body)]

-----------------------------------------------------------------------------
(* Inputs: texts are words joined by single spaces *)

MaxWords == 3

TOK1 == <<"a", ".", "e", "x", "e", "+", "1">>
TOK2 == <<"a", ".", "e", "x", "e", "+", "2">>
QTOK == <<"\"", "g", " ", "a", ".", "E", "X", "E", "\"", "+", "A", "f", ":">>
LIT == <<"x">>
PERCENT == <<"%">>
DISABLE_HDR == <<"[", "D", "I", "S", "A", "B", "L", "E", "]">>
ENABLE_HDR == <<"[", "E", "N", "A", "B", "L", "E", "]">>

SeqsUpTo(S, n) == UNION {[1..k -> S] : k \in 0..n}

Texts(words, n) == {Join(ws, <<" ">>) : ws \in SeqsUpTo(words, n)}

ExtractWords == {TOK1, QTOK, LIT, PLACEHOLDER, PERCENT, LONG_CLOSE}

-----------------------------------------------------------------------------
(* Extractor specification: process_section, build_script_part and the     *)
(* evaluation of the emitted fragment, on one section text                 *)

IdleTable == tokens_v1 = None /\ tokens_v2 = None /\ config = None

IdleSplit == asm = None /\ split = None

IdleMain == tree1 = None /\ tree2 = None /\ output = None

IdleClean ==
    /\ files = <<>> /\ written = <<>>
    /\ id_counter = None /\ binds_found = None /\ parkour_mode_found = None
    /\ extra_found = None /\ vault_landing_found = None
    /\ inside_userdefined_symbols = None /\ inside_cheatcodes = None
    /\ processed_lines = None

IdleAux == IdleTable /\ IdleSplit /\ IdleMain /\ IdleClean

IdleEntries ==
    /\ asm_map1 = None /\ asm_map2 = None /\ given = None /\ todo = <<>>
    /\ counts = None /\ log = <<>> /\ returned = None

Idle ==
    /\ asm1 = None /\ asm2 = None /\ merged = None
    /\ disableInfo = None /\ lastRun = None /\ persisted = None
    /\ IdleEntries

InitExtract ==
    /\ pc = "extract"
    /\ text \in Texts(ExtractWords, MaxWords)
    /\ proc = None /\ part = None /\ evald = None
    /\ Idle /\ IdleAux

ProcessSection ==
    /\ pc = "extract"
    /\ proc' = process_section(text)
    /\ pc' = "assemble"
    /\ UNCHANGED <<text, part, evald, scriptVars, runVars, entryVars, auxVars>>

BuildScriptPart ==
    /\ pc = "assemble"
    /\ part' = build_script_part(proc.template, Len(proc.dyn), "script", "addr")
    /\ pc' = "evaluate"
    /\ UNCHANGED <<text, proc, evald, scriptVars, runVars, entryVars, auxVars>>

\* the fragment evaluated with the extracted tokens as dynamic1..dynamicN, each
\* read back from the literal build_version_table wrote
EvaluatePart ==
    /\ pc = "evaluate"
    /\ evald' = EvalPart(part, [i \in 1..Len(proc.dyn) |->
                                  LuaStringValue(build_version_table(proc.dyn)[i])])
    /\ pc' = "done"
    /\ UNCHANGED <<text, proc, part, scriptVars, runVars, entryVars, auxVars>>

NextExtract == ProcessSection \/ BuildScriptPart \/ EvaluatePart

SpecExtract == InitExtract /\ [][NextExtract]_vars

-----------------------------------------------------------------------------
(* split_asm_sections *)

\* first index at which pat occurs in s ignoring letter case, 0 if none
RECURSIVE SearchIgnoreCase(_, _, _)
SearchIgnoreCase(s, pat, i) ==
    IF i + Len(pat) - 1 > Len(s) THEN 0
    ELSE IF LowerSeq(SubSeq(s, i, i + Len(pat) - 1)) = LowerSeq(pat) THEN i
    ELSE SearchIgnoreCase(s, pat, i + 1)

split_asm_sections(script) ==
    LET t0 == LStrip(script)
        t1 == IF StartsWith(t0, ENABLE_HDR)
              THEN LStrip(From(t0, Len(ENABLE_HDR) + 1)) ELSE t0
        k  == SearchIgnoreCase(t1, DISABLE_HDR, 1)
    IN  IF k = 0
        THEN [enable |-> Strip(t1), disable |-> <<>>]
        ELSE [enable  |-> Strip(SubSeq(t1, 1, k - 1)),
              disable |-> Strip(From(t1, k + Len(DISABLE_HDR)))]

-----------------------------------------------------------------------------
(* merge_asm_scripts *)

\* line 202: the full hand-off logic, or only "disableInfo = nil"
disable_logic(disable_template1, num_disable) ==
    IF disable_template1 # <<>> \/ num_disable > 0 THEN "assemble" ELSE "clear"

\* the token-count check with the deactivation section left unchecked
parity_check_enable_only(dyn_enable_v1, dyn_enable_v2, dyn_disable_v1, dyn_disable_v2) ==
    IF Len(dyn_enable_v1) # Len(dyn_enable_v2)
    THEN [section |-> "ENABLE",
          count1 |-> Len(dyn_enable_v1), count2 |-> Len(dyn_enable_v2)]
    ELSE None

\* the token-count checks of lines 180-183, in order: the ValueError raised, or None
parity_check(dyn_enable_v1, dyn_enable_v2, dyn_disable_v1, dyn_disable_v2) ==
    IF Len(dyn_enable_v1) # Len(dyn_enable_v2)
    THEN [section |-> "ENABLE",
          count1 |-> Len(dyn_enable_v1), count2 |-> Len(dyn_enable_v2)]
    ELSE IF Len(dyn_disable_v1) # Len(dyn_disable_v2)
    THEN [section |-> "DISABLE",
          count1 |-> Len(dyn_disable_v1), count2 |-> Len(dyn_disable_v2)]
    ELSE None

\* the template a script part is built on (lines 191-192)
part_template(template1, template2) == template1

merge_asm_scripts(a1, a2) ==
    LET s1 == split_asm_sections(a1)
        s2 == split_asm_sections(a2)
        e1 == process_section(s1.enable)
        e2 == process_section(s2.enable)
        d1 == process_section(s1.disable)
        d2 == process_section(s2.disable)
        err == parity_check(e1.dyn, e2.dyn, d1.dyn, d2.dyn)
        ce == build_lua_config_table("config_enable", e1.dyn, e2.dyn)
        cd == build_lua_config_table("config_disable", d1.dyn, d2.dyn)
    IN  IF err # None THEN [ok |-> FALSE, error |-> err]
        ELSE IF ~ce.ok THEN [ok |-> FALSE, error |->
                 [section |-> ce.name, count1 |-> ce.count1, count2 |-> ce.count2]]
        ELSE IF ~cd.ok THEN [ok |-> FALSE, error |->
                 [section |-> cd.name, count1 |-> cd.count1, count2 |-> cd.count2]]
        ELSE [ok |-> TRUE,
              config_enable  |-> ce.table,
              config_disable |-> cd.table,
              enable_part  |-> build_script_part(part_template(e1.template, e2.template),
                                                 ce.n, "enableScript", "addrE"),
              disable_part |-> build_script_part(part_template(d1.template, d2.template),
                                                 cd.n, "disableScript", "addrD"),
              disable_logic |-> disable_logic(d1.template, cd.n)]

\* the sections and extractions of a pair, for stating properties of a merge
Sections(a) ==
    LET s == split_asm_sections(a)
    IN  [enable |-> s.enable, disable |-> s.disable,
         e |-> process_section(s.enable), d |-> process_section(s.disable)]

-----------------------------------------------------------------------------
(* Merge specification: merge_asm_scripts on a pair of scripts *)

MaxMergeWords == 3

MergeWords(v) == {IF v = 1 THEN TOK1 ELSE TOK2, LIT, DISABLE_HDR}

IdleExtract == text = None /\ proc = None /\ part = None /\ evald = None

InitMerge ==
    /\ pc = "merge"
    /\ asm1 \in Texts(MergeWords(1), MaxMergeWords)
    /\ asm2 \in Texts(MergeWords(2), MaxMergeWords)
    /\ merged = None
    /\ disableInfo = None /\ lastRun = None /\ persisted = None
    /\ IdleExtract /\ IdleEntries /\ IdleAux

MergeAsmScripts ==
    /\ pc = "merge"
    /\ merged' = merge_asm_scripts(asm1, asm2)
    /\ pc' = IF merged'.ok THEN "merged" ELSE "failed"
    /\ UNCHANGED <<extractVars, asm1, asm2, runVars, entryVars, auxVars>>

NextMerge == MergeAsmScripts

SpecMerge == InitMerge /\ [][NextMerge]_vars

-----------------------------------------------------------------------------
(* The generated merged script (lines 204-237), run by the host            *)
(*                                                                         *)
(* Each run of a phase is one action.  The host supplies the globals       *)
(* `version` and `syntaxcheck` and the outcome of autoAssemble, which      *)
(* returns success and the assembly state, or failure and a diagnostic.    *)

MaxRunWords == 2
MaxInfo == 2

RunWords(v) == {IF v = 1 THEN TOK1 ELSE TOK2, LIT, PLACEHOLDER, DISABLE_HDR}

\* values the global `version` may hold; only 1 and 2 have a row
VersionSelectors == {0, 1, 2}

\* opaque values autoAssemble returns as its second result
Infos == 1..MaxInfo

\* config[version]: the Lua values of the row, or None (nil)
ConfigRow(table, version) ==
    IF version \in 1..Len(table)
    THEN [row |-> [i \in 1..Len(table[version]) |-> LuaStringValue(table[version][i])]]
    ELSE None

InitRun ==
    /\ pc = "merge"
    /\ asm1 \in Texts(RunWords(1), MaxRunWords)
    /\ asm2 \in Texts(RunWords(2), MaxRunWords)
    /\ merged = None
    /\ disableInfo = None /\ lastRun = None /\ persisted = None
    /\ IdleExtract /\ IdleEntries /\ IdleAux

RunFrame == UNCHANGED <<pc, extractVars, scriptVars, entryVars, auxVars>>

\* What a run did: the phase and the globals it ran under, how it ended, the
\* second result of autoAssemble (info), the text handed to autoAssemble
\* (assembled), the state passed along with it (state), whether the assembler
\* accepted it, and disableInfo and persisted as the run found them.
Ran(phase, version, outcome, error, info, assembled, state, assembledOk) ==
    [phase |-> phase, version |-> version, outcome |-> outcome, error |-> error,
     info |-> info, assembled |-> assembled, state |-> state,
     assembledOk |-> assembledOk, before |-> disableInfo, handoff |-> persisted]

\* autoAssemble(disableScript) called without the persisted state
disable_call_without_state(dInfo) == None

\* lines 197-200: the state handed to autoAssemble with disableScript
disable_call_state(dInfo) == IF dInfo # None THEN dInfo ELSE None

\* lines 204-222
EnablePhase(version, syntaxcheck) ==
    LET addrE == ConfigRow(merged.config_enable, version)
        enableScript == EvalPart(merged.enable_part, addrE.row)
    IN
    /\ pc = "merged"
    /\ IF syntaxcheck
       THEN /\ lastRun' = Ran("enable", version, "syntaxcheck", "none", None, None, None, FALSE)
            /\ UNCHANGED <<disableInfo, persisted>>
       ELSE IF addrE = None
       THEN /\ lastRun' = Ran("enable", version, "error", "norow", None, None, None, FALSE)
            /\ UNCHANGED <<disableInfo, persisted>>
       ELSE IF ~enableScript.ok
       THEN /\ lastRun' = Ran("enable", version, "error", "format", None, None, None, FALSE)
            /\ UNCHANGED <<disableInfo, persisted>>
       ELSE \E success \in BOOLEAN, info \in Infos :   \* autoAssemble(enableScript)
            IF ~success
            THEN /\ lastRun' = Ran("enable", version, "error", "assembly", [info |-> info],
                                   [text |-> enableScript.out], None, FALSE)
                 /\ UNCHANGED <<disableInfo, persisted>>
            ELSE /\ lastRun' = Ran("enable", version, "done", "none", [info |-> info],
                                   [text |-> enableScript.out], None, TRUE)
                 /\ disableInfo' = [info |-> info]
                 /\ persisted' = [info |-> info]
    /\ RunFrame

\* lines 224-236, with disable_logic of lines 196-202
DisablePhase(version, syntaxcheck) ==
    LET addrD == ConfigRow(merged.config_disable, version)
        disableScript == EvalPart(merged.disable_part, addrD.row)
    IN
    /\ pc = "merged"
    /\ IF syntaxcheck
       THEN /\ lastRun' = Ran("disable", version, "syntaxcheck", "none", None, None, None, FALSE)
            /\ UNCHANGED <<disableInfo, persisted>>
       ELSE IF addrD = None
       THEN /\ lastRun' = Ran("disable", version, "error", "norow", None, None, None, FALSE)
            /\ persisted' = None
            /\ UNCHANGED disableInfo
       ELSE IF ~disableScript.ok
       THEN /\ lastRun' = Ran("disable", version, "error", "format", None, None, None, FALSE)
            /\ persisted' = None
            /\ UNCHANGED disableInfo
       ELSE IF merged.disable_logic = "assemble"
       THEN \E success \in BOOLEAN :   \* autoAssemble(disableScript [, info]), result unused
            /\ lastRun' = Ran("disable", version, "done", "none", None,
                              [text |-> disableScript.out],
                              disable_call_state(disableInfo), success)
            /\ disableInfo' = None
            /\ persisted' = None
       ELSE /\ lastRun' = Ran("disable", version, "done", "none", None, None, None, FALSE)
            /\ disableInfo' = None
            /\ persisted' = None
    /\ RunFrame

RunEnable ==
    \E version \in VersionSelectors, syntaxcheck \in BOOLEAN :
        EnablePhase(version, syntaxcheck)

RunDisable ==
    \E version \in VersionSelectors, syntaxcheck \in BOOLEAN :
        DisablePhase(version, syntaxcheck)

NextRun == MergeAsmScripts \/ RunEnable \/ RunDisable

SpecRun == InitRun /\ [][NextRun]_vars

-----------------------------------------------------------------------------
(* Properties of the extractor and the script assembler (SpecExtract) *)

\* the placeholders of a template replaced, left to right, by the tokens in order
RECURSIVE Resubstitute(_, _)
Resubstitute(template, tokens) ==
    IF Len(template) < Len(PLACEHOLDER) \/ tokens = <<>> THEN template
    ELSE IF SubSeq(template, 1, Len(PLACEHOLDER)) = PLACEHOLDER
         THEN Head(tokens) \o Resubstitute(From(template, Len(PLACEHOLDER) + 1), Tail(tokens))
         ELSE <<template[1]>> \o Resubstitute(Tail(template), tokens)

\* C2: for every text, replacing the placeholders of the template left to right
\* by the extracted tokens in order gives the text back, and with no token the
\* template is the text.
C2_RoundTrip ==
    pc # "extract" =>
        /\ Resubstitute(proc.template, proc.dyn) = text
        /\ (proc.dyn = <<>> => proc.template = text)

\* C10: for count > 0 the emitted format string has exactly count active
\* substitution points, whatever the source text contained.
C10_ExactlyCountSubstitutionPoints ==
    (pc \in {"evaluate", "done"} /\ part.kind = "format") =>
        ActivePoints(LuaLongString(part.body)) = Len(part.keys)

\* the fragment build_script_part emitted is the fast path's: the variable
\* bound to the template itself as a long string, no string.format call
LiteralOfTemplate ==
    /\ part.kind = "literal"
    /\ part.var = "script"
    /\ part.body = proc.template
    /\ part.keys = <<>>

\* a pair of scripts made of this text, without a token: both fragments of the
\* merged script are fast-path fragments
PairUsesLiteralPath ==
    LET m == merge_asm_scripts(text \o <<" ">> \o DISABLE_HDR \o <<" ">> \o text, text)
    IN  /\ m.ok
        /\ m.enable_part.kind = "literal" /\ m.enable_part.keys = <<>>
        /\ m.disable_part.kind = "literal" /\ m.disable_part.keys = <<>>

\* C12 as claimed: for count = 0 the fragment is the variable bound to the
\* literal template, with no substitution call, and evaluating it yields
\* exactly the template; a pair of scripts without tokens merges into two such
\* fragments.
C12_FastPathYieldsExactlyTemplate ==
    (pc \in {"evaluate", "done"} /\ Len(proc.dyn) = 0) =>
        /\ LiteralOfTemplate
        /\ PairUsesLiteralPath
        /\ pc = "done" => evald = [ok |-> TRUE, out |-> proc.template]

\* C12, amended: for count = 0 the fragment is the variable bound to the
\* literal template, with no substitution call; evaluating it yields the
\* template followed by one line break, nothing substituted, unless the
\* template holds the closing bracket ]==], in which case the fragment does not
\* yield it; a pair of scripts without tokens merges into two such fragments.
C12_FastPathYieldsTemplateAndLineBreak ==
    (pc \in {"evaluate", "done"} /\ Len(proc.dyn) = 0) =>
        /\ LiteralOfTemplate
        /\ PairUsesLiteralPath
        /\ (pc = "done" /\ ~ClosesEarly(proc.template)) =>
              evald = [ok |-> TRUE, out |-> proc.template \o <<"\n">>]
        /\ (pc = "done" /\ ClosesEarly(proc.template)) => ~evald.ok

\* a template with a percent sign and a placeholder went through the fast path
C12_Witness ==
    /\ pc = "done"
    /\ proc.dyn = <<>>
    /\ proc.template = Join(<<PERCENT, LIT, PLACEHOLDER>>, <<" ">>)
    /\ evald.ok

-----------------------------------------------------------------------------
(* Properties of merge_asm_scripts (SpecMerge) *)

\* the sections whose token counts differ between the two versions
Mismatched(a1, a2) ==
    {"ENABLE" : x \in {1} \cap {IF Len(Sections(a1).e.dyn) # Len(Sections(a2).e.dyn) THEN 1 ELSE 0}}
    \cup
    {"DISABLE" : x \in {1} \cap {IF Len(Sections(a1).d.dyn) # Len(Sections(a2).d.dyn) THEN 1 ELSE 0}}

SectionCounts(a1, a2, section) ==
    IF section = "ENABLE"
    THEN <<Len(Sections(a1).e.dyn), Len(Sections(a2).e.dyn)>>
    ELSE <<Len(Sections(a1).d.dyn), Len(Sections(a2).d.dyn)>>

MergeReturned == pc \in {"merged", "failed"}

\* C3 as claimed: the merge fails exactly when some section's counts differ, and
\* the diagnostic names every mismatching section, with both counts.
C3_DiagnosticNamesEveryMismatch ==
    MergeReturned =>
        /\ merged.ok <=> Mismatched(asm1, asm2) = {}
        /\ ~merged.ok =>
              /\ {merged.error.section} = Mismatched(asm1, asm2)
              /\ <<merged.error.count1, merged.error.count2>>
                    = SectionCounts(asm1, asm2, merged.error.section)

\* C3 amended: the merge fails exactly when some section's counts differ, and
\* the diagnostic names the first mismatching section, activation before
\* deactivation, with both counts of that section.
C3_DiagnosticNamesFirstMismatch ==
    MergeReturned =>
        /\ merged.ok <=> Mismatched(asm1, asm2) = {}
        /\ ~merged.ok =>
              /\ merged.error.section =
                    (IF "ENABLE" \in Mismatched(asm1, asm2) THEN "ENABLE" ELSE "DISABLE")
              /\ merged.error.section \in Mismatched(asm1, asm2)
              /\ <<merged.error.count1, merged.error.count2>>
                    = SectionCounts(asm1, asm2, merged.error.section)

\* both sections mismatch and the merge failed
C3_WitnessBoth ==
    /\ pc = "failed"
    /\ Mismatched(asm1, asm2) = {"ENABLE", "DISABLE"}

\* C4: whenever a merged script is returned, the two versions' templates are
\* identical in the activation section and in the deactivation section.
C4_MergedImpliesSameTemplates ==
    pc = "merged" =>
        /\ Sections(asm1).e.template = Sections(asm2).e.template
        /\ Sections(asm1).d.template = Sections(asm2).d.template

-----------------------------------------------------------------------------
(* Properties of the generated script (SpecRun) *)

RealRun(phase) ==
    /\ lastRun # None
    /\ lastRun.phase = phase
    /\ lastRun.outcome # "syntaxcheck"

\* the section text of the version the run selected
VersionBody(phase, version) ==
    LET a == IF version = 1 THEN asm1 ELSE asm2
    IN  IF phase = "enable" THEN Sections(a).enable ELSE Sections(a).disable

\* C1: a run under version selector v (1 or 2) builds its fragment without
\* error, and the text it hands to the assembler is version v's own section
\* text followed by the line break of the fragment.
C1_HandsVersionText ==
    (lastRun # None /\ lastRun.outcome # "syntaxcheck" /\ lastRun.version \in {1, 2}) =>
        /\ lastRun.error # "format"
        /\ lastRun.assembled # None =>
              lastRun.assembled.text =
                  VersionBody(lastRun.phase, lastRun.version) \o <<"\n">>

\* C7: every run of the deactivation phase leaves disableInfo cleared.
C7_DeactivationAlwaysClears ==
    RealRun("disable") => disableInfo = None

\* C8: an activation run whose assembly failed raised the error with the
\* assembler's diagnostic, and no persisted state is present after it.
C8_FailedActivationLeavesNoState ==
    (RealRun("enable") /\ lastRun.error = "assembly") =>
        /\ lastRun.outcome = "error"
        /\ lastRun.info # None
        /\ disableInfo = None

\* C9 as claimed: a successful activation persists the assembler's state; a
\* deactivation run evaluates the fragment, with exactly the state persisted by
\* the activation it follows, and without state when none is persisted.
C9_HandOffAlways ==
    /\ (RealRun("enable") /\ lastRun.outcome = "done") => disableInfo = lastRun.info
    /\ (RealRun("disable") /\ lastRun.handoff # None) =>
          /\ lastRun.assembled # None
          /\ lastRun.state = lastRun.handoff
    /\ (RealRun("disable") /\ lastRun.before = None) =>
          /\ lastRun.assembled # None
          /\ lastRun.state = None

\* the deactivation run got as far as its hand-off logic: a row exists for the
\* version selector and the fragment was built
ReachedHandOff ==
    /\ RealRun("disable")
    /\ lastRun.version \in {1, 2}
    /\ EvalPart(merged.disable_part,
                ConfigRow(merged.config_disable, lastRun.version).row).ok

\* C9 amended: a successful activation persists the assembler's state; a
\* deactivation run that reaches its hand-off logic and whose merged script has
\* a non-empty deactivation template evaluates the fragment, with exactly the
\* state persisted by the activation it follows, and without state when none is
\* persisted; with an empty deactivation template no fragment is evaluated.
C9_HandOffWhenAssembled ==
    /\ (RealRun("enable") /\ lastRun.outcome = "done") => disableInfo = lastRun.info
    /\ (ReachedHandOff /\ Sections(asm1).d.template # <<>>) =>
          /\ lastRun.outcome = "done"
          /\ lastRun.assembled # None
          /\ lastRun.handoff # None => lastRun.state = lastRun.handoff
          /\ lastRun.before = None => lastRun.state = None
    /\ (ReachedHandOff /\ Sections(asm1).d.template = <<>>) =>
          /\ lastRun.outcome = "done"
          /\ lastRun.assembled = None

\* a deactivation run handed the persisted state of the activation before it
C9_Witness ==
    /\ ReachedHandOff
    /\ Sections(asm1).d.template # <<>>
    /\ lastRun.handoff # None
    /\ lastRun.state = lastRun.handoff

-----------------------------------------------------------------------------
(* merge_cheat_entries (SpecEntries)                                       *)
(*                                                                         *)
(* The text of an AssemblerScript element is either source text or the     *)
(* merged script that replaced it.  One action is one iteration of the     *)
(* loop of lines 284-304; Return is lines 306-307.                         *)

MaxIds == 2

Ids == 1..MaxIds

Source(chars) == [chars |-> chars]
Generated(script) == [merged_script |-> script]

EntryScripts(v) == {Source(t) : t \in {<<>>, LIT, IF v = 1 THEN TOK1 ELSE TOK2}}

\* the orders in which the identifiers of S can stand in a document
Orders(S) ==
    {o \in [1..Cardinality(S) -> S] : \A i, j \in 1..Cardinality(S) : i # j => o[i] # o[j]}

InitEntries ==
    /\ pc = "loop"
    /\ \E S1 \in SUBSET Ids, S2 \in SUBSET Ids :
          /\ asm_map1 \in [S1 -> EntryScripts(1)]
          /\ asm_map2 \in [S2 -> EntryScripts(2)]
          /\ todo \in Orders(S1)
    /\ given = [map1 |-> asm_map1, map2 |-> asm_map2]
    /\ counts = [merged_count |-> 0, skipped_count |-> 0, error_count |-> 0]
    /\ log = <<>>
    /\ returned = None
    /\ asm1 = None /\ asm2 = None /\ merged = None
    /\ disableInfo = None /\ lastRun = None /\ persisted = None
    /\ IdleExtract /\ IdleAux

\* lines 285-304: how the iteration for cheat_id ends
entry_outcome(cheat_id, map1, map2) ==
    IF cheat_id \in DOMAIN map2
    THEN IF merge_asm_scripts(map1[cheat_id].chars, map2[cheat_id].chars).ok
         THEN "merged" ELSE "error"
    ELSE "skipped"

\* the element text after a merge attempt was abandoned before line 293
entry_text_cleared(outcome, old, merged_text) ==
    IF outcome = "merged" THEN merged_text ELSE Source(<<>>)

\* line 293: the element text after the iteration
entry_text(outcome, old, merged_text) ==
    IF outcome = "merged" THEN merged_text ELSE old

\* the counters with errors left out
tally_without_errors(c, outcome) ==
    CASE outcome = "merged"  -> [c EXCEPT !.merged_count = @ + 1]
      [] outcome = "error"   -> c
      [] outcome = "skipped" -> [c EXCEPT !.skipped_count = @ + 1]

\* the counters with a failed entry starting the merged count over
tally_error_resets_merged(c, outcome) ==
    CASE outcome = "merged"  -> [c EXCEPT !.merged_count = @ + 1]
      [] outcome = "error"   -> [c EXCEPT !.error_count = @ + 1, !.merged_count = 0]
      [] outcome = "skipped" -> [c EXCEPT !.skipped_count = @ + 1]

\* lines 295, 298, 301, 304
tally(c, outcome) ==
    CASE outcome = "merged"  -> [c EXCEPT !.merged_count = @ + 1]
      [] outcome = "error"   -> [c EXCEPT !.error_count = @ + 1]
      [] outcome = "skipped" -> [c EXCEPT !.skipped_count = @ + 1]

ProcessEntry ==
    /\ pc = "loop"
    /\ todo # <<>>
    /\ LET cheat_id == Head(todo)
           outcome  == entry_outcome(cheat_id, asm_map1, asm_map2)
           merged_text ==
               IF outcome = "skipped" THEN None
               ELSE Generated(merge_asm_scripts(asm_map1[cheat_id].chars,
                                                asm_map2[cheat_id].chars))
       IN  /\ asm_map1' = [asm_map1 EXCEPT
                              ![cheat_id] = entry_text(outcome, @, merged_text)]
           /\ counts' = tally(counts, outcome)
           /\ log' = Append(log, [id |-> cheat_id, outcome |-> outcome])
    /\ todo' = Tail(todo)
    /\ UNCHANGED <<pc, asm_map2, given, returned, extractVars, scriptVars, runVars,
                   auxVars>>

\* lines 306-307: the summary is logged, merged_count is returned
Return ==
    /\ pc = "loop"
    /\ todo = <<>>
    /\ returned' = [merged_count |-> counts.merged_count]
    /\ pc' = "returned"
    /\ UNCHANGED <<asm_map1, asm_map2, given, todo, counts, log,
                   extractVars, scriptVars, runVars, auxVars>>

NextEntries == ProcessEntry \/ Return

SpecEntries == InitEntries /\ [][NextEntries]_vars

-----------------------------------------------------------------------------
(* Properties of merge_cheat_entries (SpecEntries) *)

Logged(outcome) == {i \in 1..Len(log) : log[i].outcome = outcome}

\* every identifier of M1 is processed exactly once, in some order, and no
\* other; the counters add up to the number of entries processed so far
ProcessedOnceAndCounted ==
    /\ {log[i].id : i \in 1..Len(log)} \cup {todo[i] : i \in 1..Len(todo)}
          = DOMAIN given.map1
    /\ Len(log) + Len(todo) = Cardinality(DOMAIN given.map1)
    /\ counts.merged_count = Cardinality(Logged("merged"))
    /\ counts.skipped_count = Cardinality(Logged("skipped"))
    /\ counts.error_count = Cardinality(Logged("error"))
    /\ counts.merged_count + counts.skipped_count + counts.error_count = Len(log)
    /\ pc = "returned" =>
          /\ todo = <<>>
          /\ counts.merged_count + counts.skipped_count + counts.error_count
                = Cardinality(DOMAIN given.map1)

\* C5 as claimed: every identifier of M1 is processed exactly once, a failing
\* entry stops nothing, the three counts add up to |M1|, and the three counts
\* are what the caller gets.
C5_ThreeCountsReturned ==
    /\ ProcessedOnceAndCounted
    /\ pc = "returned" => returned = counts

\* C5 amended: every identifier of M1 is processed exactly once, a failing
\* entry stops nothing, the three counts add up to |M1|; the caller gets
\* merged_count alone, the other two counts are only logged.
C5_CountsAddUpMergedReturned ==
    /\ ProcessedOnceAndCounted
    /\ pc = "returned" => returned = [merged_count |-> counts.merged_count]

\* the call returned after an entry failed and a later entry was processed
C5_Witness ==
    /\ pc = "returned"
    /\ \E i, j \in 1..Len(log) : i < j /\ log[i].outcome = "error"
    /\ counts.error_count > 0

\* C6: an entry counted as error or skipped, and an entry not yet processed,
\* has the script text it was passed in with; a merged entry has the merged
\* script; document 2 is as it was passed in.
C6_OnlyMergedEntriesChange ==
    /\ asm_map2 = given.map2
    /\ DOMAIN asm_map1 = DOMAIN given.map1
    /\ \A i \in 1..Len(log) :
          IF log[i].outcome = "merged"
          THEN asm_map1[log[i].id] =
                  Generated(merge_asm_scripts(given.map1[log[i].id].chars,
                                              given.map2[log[i].id].chars))
          ELSE asm_map1[log[i].id] = given.map1[log[i].id]
    /\ \A i \in 1..Len(todo) : asm_map1[todo[i]] = given.map1[todo[i]]

\* the call returned with an entry in error and a skipped entry, one of them
\* with a non-empty script
C6_Witness ==
    /\ pc = "returned"
    /\ Logged("error") # {}
    /\ Logged("skipped") # {}
    /\ \E i \in Logged("error") \cup Logged("skipped") :
          given.map1[log[i].id] # Source(<<>>)

\* what the maps passed in determine for an identifier of M1, whatever the
\* order of processing: its outcome and its final script text
OutcomeOf(id) ==
    IF id \notin DOMAIN given.map2 THEN "skipped"
    ELSE IF merge_asm_scripts(given.map1[id].chars, given.map2[id].chars).ok
         THEN "merged" ELSE "error"

FinalText(id) ==
    IF OutcomeOf(id) = "merged"
    THEN Generated(merge_asm_scripts(given.map1[id].chars, given.map2[id].chars))
    ELSE given.map1[id]

Total(outcome) == Cardinality({id \in DOMAIN given.map1 : OutcomeOf(id) = outcome})

\* C16: in whatever order the identifiers of M1 are processed, the final
\* script text of every entry of document 1 and the final totals are those the
\* two maps determine; processing an identifier writes the script of no other
\* identifier, and what it writes is determined by the two scripts of that
\* identifier alone.
C16_OrderInsensitive ==
    [][/\ todo' # todo =>
            LET cheat_id == Head(todo)
            IN  /\ \A id \in DOMAIN asm_map1 \ {cheat_id} : asm_map1'[id] = asm_map1[id]
                /\ asm_map1'[cheat_id] = FinalText(cheat_id)
                /\ asm_map2' = asm_map2
       /\ pc' = "returned" =>
            /\ \A id \in DOMAIN given.map1 : asm_map1'[id] = FinalText(id)
            /\ counts' = [merged_count  |-> Total("merged"),
                          skipped_count |-> Total("skipped"),
                          error_count   |-> Total("error")]]_vars

\* the call returned after processing identifier 2 before identifier 1, the
\* first in error and the second merged
C16_Witness ==
    /\ pc = "returned"
    /\ Len(log) >= 2
    /\ log[1] = [id |-> 2, outcome |-> "error"]
    /\ log[2] = [id |-> 1, outcome |-> "merged"]

-----------------------------------------------------------------------------
(* Table specification: build_lua_config_table on two token lists *)

MaxTokens == 2

\* an unquoted token whose module name holds a backslash
BTOK == <<"b", "\\", "a", ".", "e", "x", "e", "+", "1">>

TableTokens == {TOK1, TOK2, QTOK, BTOK}

InitTable ==
    /\ pc = "table"
    /\ tokens_v1 \in SeqsUpTo(TableTokens, MaxTokens)
    /\ tokens_v2 \in SeqsUpTo(TableTokens, MaxTokens)
    /\ config = None
    /\ Idle /\ IdleExtract /\ IdleSplit /\ IdleMain /\ IdleClean

BuildLuaConfigTable ==
    /\ pc = "table"
    /\ config' = build_lua_config_table("config_enable", tokens_v1, tokens_v2)
    /\ pc' = IF config'.ok THEN "built" ELSE "raised"
    /\ UNCHANGED <<tokens_v1, tokens_v2, coreVars, splitVars, mainVars, cleanVars>>

NextTable == BuildLuaConfigTable

SpecTable == InitTable /\ [][NextTable]_vars

\* the Lua values of row i of a table, keys dynamic1 .. dynamicN in order
RowValues(table, i) == [j \in 1..Len(table[i]) |-> LuaStringValue(table[i][j])]

\* C11: build_lua_config_table raises exactly when the two token lists differ
\* in length; otherwise it returns count = len(tokens_v1) and a table with two
\* rows in which key dynamic j of row 1 holds tokens_v1[j] and key dynamic j of
\* row 2 holds tokens_v2[j], positions in list order.
C11_TableBuilder ==
    pc \in {"built", "raised"} =>
        /\ (pc = "raised") <=> (Len(tokens_v1) # Len(tokens_v2))
        /\ pc = "raised" =>
              /\ config.count1 = Len(tokens_v1)
              /\ config.count2 = Len(tokens_v2)
        /\ pc = "built" =>
              /\ config.n = Len(tokens_v1)
              /\ Len(config.table) = 2
              /\ RowValues(config.table, 1) = tokens_v1
              /\ RowValues(config.table, 2) = tokens_v2

\* a table was built from lists that differ and hold a backslash and a quote
C11_Witness ==
    /\ pc = "built"
    /\ tokens_v1 = <<BTOK, QTOK>>
    /\ tokens_v2 = <<QTOK, TOK2>>

-----------------------------------------------------------------------------
(* Splitter specification: split_asm_sections on one script *)

MaxSplitWords == 3

enable_hdr == LowerSeq(ENABLE_HDR)
Disable_Hdr == <<"[", "D", "i", "s", "a", "b", "l", "e", "]">>

SplitWords == {ENABLE_HDR, enable_hdr, DISABLE_HDR, Disable_Hdr, LIT}

InitSplit ==
    /\ pc = "split"
    /\ asm \in {Source(t) : t \in Texts(SplitWords, MaxSplitWords)}
    /\ split = None
    /\ Idle /\ IdleExtract /\ IdleTable /\ IdleMain /\ IdleClean

SplitAsmSections ==
    /\ pc = "split"
    /\ split' = split_asm_sections(asm.chars)
    /\ pc' = "sections"
    /\ UNCHANGED <<asm, coreVars, tableVars, mainVars, cleanVars>>

NextSplit == SplitAsmSections

SpecSplit == InitSplit /\ [][NextSplit]_vars

\* s begins with the header in some letter case
StartsWithAnyCase(s, hdr) ==
    Len(s) >= Len(hdr) /\ LowerSeq(SubSeq(s, 1, Len(hdr))) = LowerSeq(hdr)

\* C13: a leading activation header in any letter case is consumed and is not
\* part of the activation body; the remainder is split at the first
\* deactivation header in any letter case, what follows it being the
\* deactivation body; without a deactivation header the deactivation body is
\* empty; the splitter never fails.
C13_BothMarkersAnyCase ==
    pc = "sections" =>
        LET t0   == LStrip(asm.chars)
            rest == IF StartsWithAnyCase(t0, ENABLE_HDR)
                    THEN From(t0, Len(ENABLE_HDR) + 1) ELSE t0
            k    == SearchIgnoreCase(rest, DISABLE_HDR, 1)
        IN  /\ k = 0 => split = [enable |-> Strip(rest), disable |-> <<>>]
            /\ k > 0 => split = [enable  |-> Strip(SubSeq(rest, 1, k - 1)),
                                 disable |-> Strip(From(rest, k + Len(DISABLE_HDR)))]

-----------------------------------------------------------------------------
(* get_assembler_scripts and the end of main *)

\* an <AssemblerScript> element by its text: None for <AssemblerScript/>
Element(elem_text) == [text |-> elem_text]

\* a CheatEntry with an ID; AssemblerScript is None when it has no such child
CheatEntry(id, asm_elem) == [ID |-> id, AssemblerScript |-> asm_elem]

\* the positions of tree whose entry puts its identifier in the mapping
Mapped(tree) == {i \in 1..Len(tree) : tree[i].AssemblerScript # None}

\* the mapping without the branch of lines 260-263
get_assembler_scripts_text_only(tree) ==
    LET at == {i \in Mapped(tree) : tree[i].AssemblerScript.text # None}
        last(id) == CHOOSE i \in at :
                        /\ tree[i].ID = id
                        /\ \A j \in at : tree[j].ID = id => j <= i
    IN  [id \in {tree[i].ID : i \in at} |-> tree[last(id)].AssemblerScript.text]

\* lines 252-266: identifier -> element text, a later entry with the same
\* identifier replacing an earlier one; the text of <AssemblerScript/> is ""
get_assembler_scripts(tree) ==
    LET last(id) == CHOOSE i \in Mapped(tree) :
                        /\ tree[i].ID = id
                        /\ \A j \in Mapped(tree) : tree[j].ID = id => j <= i
        elem_text(i) == IF tree[i].AssemblerScript.text = None
                        THEN Source(<<>>) ELSE tree[i].AssemblerScript.text
    IN  [id \in {tree[i].ID : i \in Mapped(tree)} |-> elem_text(last(id))]

\* the identifiers of the mapping in insertion order, which is the order
\* asm_map1.items() yields
RECURSIVE InsertionOrder(_, _)
InsertionOrder(tree, seen) ==
    IF tree = <<>> THEN <<>>
    ELSE IF Head(tree).AssemblerScript # None /\ Head(tree).ID \notin seen
         THEN <<Head(tree).ID>> \o InsertionOrder(Tail(tree), seen \cup {Head(tree).ID})
         ELSE InsertionOrder(Tail(tree), seen)

\* the tree as tree1.write serialises it: the mapped elements carry the texts
\* the mapping holds, line 262 and line 293 having assigned through it
Serialised(tree, mapping) ==
    [i \in 1..Len(tree) |->
        IF i \in Mapped(tree) /\ \A j \in Mapped(tree) : tree[j].ID = tree[i].ID => j <= i
        THEN CheatEntry(tree[i].ID, Element(mapping[tree[i].ID]))
        ELSE tree[i]]

\* output written only when an entry was merged
should_write_merged_only(merged_count, mapping) == merged_count > 0

\* line 413
should_write(merged_count, mapping) ==
    merged_count > 0 \/ Cardinality(DOMAIN mapping) > 0

-----------------------------------------------------------------------------
(* Run specification of main: both documents parsed, the mappings built,    *)
(* merge_cheat_entries run over them, the output written or not             *)

\* no child element, <AssemblerScript/>, a script without and with a token
ElementKinds(v) ==
    {None, Element(None), Element(Source(LIT)),
     Element(Source(IF v = 1 THEN TOK1 ELSE TOK2))}

Ascending(S) == CHOOSE o \in Orders(S) : \A i, j \in DOMAIN o : i < j => o[i] < o[j]

\* the documents of version v: entries with distinct identifiers
Documents(v) ==
    {[i \in 1..Cardinality(S) |-> CheatEntry(Ascending(S)[i], f[Ascending(S)[i]])] :
        <<S, f>> \in {<<S0, f0>> \in (SUBSET Ids) \X
                                     UNION {[S1 -> ElementKinds(v)] : S1 \in SUBSET Ids} :
                         DOMAIN f0 = S0}}

InitMain ==
    /\ pc = "parsed"
    /\ tree1 \in Documents(1)
    /\ tree2 \in Documents(2)
    /\ output = None
    /\ asm_map1 = None /\ asm_map2 = None /\ given = None /\ todo = <<>>
    /\ counts = None /\ log = <<>> /\ returned = None
    /\ asm1 = None /\ asm2 = None /\ merged = None
    /\ disableInfo = None /\ lastRun = None /\ persisted = None
    /\ IdleExtract /\ IdleTable /\ IdleSplit /\ IdleClean

\* lines 405-406 and 280-282: the two mappings are built and handed to
\* merge_cheat_entries, which starts its counters at zero.  The trees are kept
\* as parsed; Serialised reads the texts assigned through the mappings.
GetAssemblerScripts ==
    /\ pc = "parsed"
    /\ asm_map1' = get_assembler_scripts(tree1)
    /\ asm_map2' = get_assembler_scripts(tree2)
    /\ given' = [map1 |-> asm_map1', map2 |-> asm_map2']
    /\ todo' = InsertionOrder(tree1, {})
    /\ counts' = [merged_count |-> 0, skipped_count |-> 0, error_count |-> 0]
    /\ pc' = "loop"
    /\ UNCHANGED <<log, returned, extractVars, scriptVars, runVars, auxVars>>

\* lines 413-425; tree1.write may fail, which ends the run with status 1
WriteOutput ==
    /\ pc = "returned"
    /\ IF should_write(returned.merged_count, asm_map1)
       THEN \E write_ok \in BOOLEAN :
               output' = IF write_ok
                         THEN [file |-> [tree |-> Serialised(tree1, asm_map1)],
                               warning |-> FALSE, exit |-> 0]
                         ELSE [file |-> None, warning |-> FALSE, exit |-> 1]
       ELSE output' = [file |-> None, warning |-> TRUE, exit |-> 0]
    /\ pc' = "exited"
    /\ UNCHANGED <<tree1, tree2, coreVars, tableVars, splitVars, cleanVars>>

NextMain == GetAssemblerScripts \/ ProcessEntry \/ Return \/ WriteOutput

SpecMain == InitMain /\ [][NextMain]_vars

-----------------------------------------------------------------------------
(* Properties of get_assembler_scripts and main (SpecMain) *)

\* the identifiers of the entries of a document
EntryIds(tree) == {tree[i].ID : i \in 1..Len(tree)}

\* the identifiers of the entries that have an <AssemblerScript> child
ScriptIds(tree) == {tree[i].ID : i \in Mapped(tree)}

\* the outcomes logged for an identifier
Outcomes(id) == {log[k].outcome : k \in {k0 \in 1..Len(log) : log[k0].id = id}}

\* C14 as claimed: every entry that has an identifier is in the mapping of its
\* document, an entry with no script at all and an entry with an empty script
\* with the empty string; hence an identifier that both documents hold is
\* merged or counted as an error, whether or not its entries have a script.
C14_EveryIdentifiedEntryMapped ==
    pc # "parsed" =>
        /\ \A i \in 1..Len(tree1) :
              /\ tree1[i].ID \in DOMAIN given.map1
              /\ tree1[i].AssemblerScript \in {None, Element(None)} =>
                    given.map1[tree1[i].ID] = Source(<<>>)
        /\ \A i \in 1..Len(tree2) :
              /\ tree2[i].ID \in DOMAIN given.map2
              /\ tree2[i].AssemblerScript \in {None, Element(None)} =>
                    given.map2[tree2[i].ID] = Source(<<>>)
        /\ pc \in {"returned", "exited"} =>
              \A id \in EntryIds(tree1) \cap EntryIds(tree2) :
                  /\ Outcomes(id) # {}
                  /\ Outcomes(id) \subseteq {"merged", "error"}

\* C14, amended: the mapping of a document holds exactly the entries that
\* have an identifier and an <AssemblerScript> child, an empty child with the
\* empty string; an entry without the child is left out.  Hence an identifier
\* with the child in both documents is merged or counted as an error, one with
\* the child in document 1 only is counted as skipped, and one without the
\* child in document 1 is not processed at all.
C14_EntriesWithScriptElementMapped ==
    pc # "parsed" =>
        /\ DOMAIN given.map1 = ScriptIds(tree1)
        /\ DOMAIN given.map2 = ScriptIds(tree2)
        /\ \A i \in Mapped(tree1) :
              given.map1[tree1[i].ID] =
                 IF tree1[i].AssemblerScript = Element(None)
                 THEN Source(<<>>) ELSE tree1[i].AssemblerScript.text
        /\ \A i \in Mapped(tree2) :
              given.map2[tree2[i].ID] =
                 IF tree2[i].AssemblerScript = Element(None)
                 THEN Source(<<>>) ELSE tree2[i].AssemblerScript.text
        /\ pc \in {"returned", "exited"} =>
              \A id \in Ids :
                  /\ id \in ScriptIds(tree1) \cap ScriptIds(tree2) =>
                        Outcomes(id) # {} /\ Outcomes(id) \subseteq {"merged", "error"}
                  /\ id \in ScriptIds(tree1) \ ScriptIds(tree2) =>
                        Outcomes(id) = {"skipped"}
                  /\ id \notin ScriptIds(tree1) => Outcomes(id) = {}

\* document 1 has an entry with a script whose counterpart has no child, and
\* an entry with an empty child whose counterpart has a script
C14_Witness ==
    /\ pc = "returned"
    /\ tree1 = <<CheatEntry(1, Element(Source(LIT))), CheatEntry(2, Element(None))>>
    /\ tree2 = <<CheatEntry(1, None), CheatEntry(2, Element(Source(LIT)))>>
    /\ log = <<[id |-> 1, outcome |-> "skipped"], [id |-> 2, outcome |-> "merged"]>>

\* C15 as claimed: a run that ends with zero merged entries and zero errors
\* gives the warning, does not exit as a failure and writes no output file; an
\* output file is written only when an entry was merged or counted as error.
C15_NoOutputWithoutMergeOrError ==
    pc = "exited" =>
        /\ (counts.merged_count = 0 /\ counts.error_count = 0) =>
              output = [file |-> None, warning |-> TRUE, exit |-> 0]
        /\ output.file # None =>
              (counts.merged_count > 0 \/ counts.error_count > 0)

\* C15, amended: the run gives the warning, writes no output file and does
\* not exit as a failure exactly when the mapping of document 1 is empty; when
\* it holds an entry, merged, counted as error or skipped, the run gives no
\* warning and writes tree1, or exits with status 1 if the write fails; a run
\* whose entries were all skipped writes document 1 with its scripts unchanged.
C15_OutputUnlessMappingEmpty ==
    pc = "exited" =>
        /\ DOMAIN given.map1 = {} =>
              output = [file |-> None, warning |-> TRUE, exit |-> 0]
        /\ DOMAIN given.map1 # {} =>
              /\ ~output.warning
              /\ \/ output.exit = 0 /\ output.file = [tree |-> Serialised(tree1, asm_map1)]
                 \/ output.exit = 1 /\ output.file = None
        /\ (output.file # None /\ counts.merged_count = 0) =>
              output.file.tree = Serialised(tree1, given.map1)

\* every entry of document 1 was skipped and the output file was written
C15_Witness ==
    /\ pc = "exited"
    /\ DOMAIN given.map1 = Ids
    /\ counts = [merged_count |-> 0, skipped_count |-> MaxIds, error_count |-> 0]
    /\ output.file # None

-----------------------------------------------------------------------------
(* The cleanup pass of src/cleanALL.py *)

\* A line is modelled by what the pass tests of it: the substrings of the
\* tests of lines 43-93 that occur in it, and the number of matches of
\* <ID>\d+</ID> in the part of it that lines 92-101 keep.
Line(has, ids) == [has |-> has, ids |-> ids]

UDS_OPEN == "<UserdefinedSymbols>"
UDS_CLOSE == "</UserdefinedSymbols>"
CC_OPEN == "<CheatCodes>"
CC_CLOSE == "</CheatCodes>"
UDS_EMPTY == "<UserdefinedSymbols/>"
BINDS == "<Description>\"Binds\"</Description>"
PARKOUR_MODE == "<Description>\"Parkour Mode\"</Description>"
EXTRA == "<Description>\"Extra\"</Description>"
VAULT_LANDING == "<Description>\"Vault Landing Far Height\"</Description>"
LAST_STATE == "LastState"
\* one of comment_substrings with nothing but blanks before it, and with text
\* before it
COMMENT_ONLY == "//comment"
COMMENT_AFTER_TEXT == "text //comment"

\* the values the counter is set to at the four descriptions
BindsStart == 100
ParkourModeStart == 200
ExtraStart == 300
VaultLandingStart == 400

\* lines 27-31 and 37-39 with the counter initialised once, before the first
\* file, instead of at every file
file_start_counter_hoisted(st) ==
    [id_counter |-> IF written = <<>> THEN 0 ELSE st.id_counter,
     binds_found |-> FALSE, parkour_mode_found |-> FALSE,
     extra_found |-> FALSE, vault_landing_found |-> FALSE,
     inside_userdefined_symbols |-> FALSE, inside_cheatcodes |-> FALSE,
     processed_lines |-> <<>>]

\* lines 27-31 and 37-39: the globals as a file starts with them, whatever
\* the file before left in st
file_start(st) ==
    [id_counter |-> 0,
     binds_found |-> FALSE, parkour_mode_found |-> FALSE,
     extra_found |-> FALSE, vault_landing_found |-> FALSE,
     inside_userdefined_symbols |-> FALSE, inside_cheatcodes |-> FALSE,
     processed_lines |-> <<>>]

\* the counter started over at the first description
description_marker_binds_restarts(st, line) ==
    IF BINDS \in line.has
    THEN [st EXCEPT !.binds_found = TRUE, !.id_counter = 0]
    ELSE IF PARKOUR_MODE \in line.has
    THEN [st EXCEPT !.parkour_mode_found = TRUE, !.id_counter = ParkourModeStart]
    ELSE IF EXTRA \in line.has
    THEN [st EXCEPT !.extra_found = TRUE, !.id_counter = ExtraStart]
    ELSE IF VAULT_LANDING \in line.has
    THEN [st EXCEPT !.vault_landing_found = TRUE, !.id_counter = VaultLandingStart]
    ELSE st

\* lines 67-78
description_marker(st, line) ==
    IF BINDS \in line.has
    THEN [st EXCEPT !.binds_found = TRUE, !.id_counter = BindsStart]
    ELSE IF PARKOUR_MODE \in line.has
    THEN [st EXCEPT !.parkour_mode_found = TRUE, !.id_counter = ParkourModeStart]
    ELSE IF EXTRA \in line.has
    THEN [st EXCEPT !.extra_found = TRUE, !.id_counter = ExtraStart]
    ELSE IF VAULT_LANDING \in line.has
    THEN [st EXCEPT !.vault_landing_found = TRUE, !.id_counter = VaultLandingStart]
    ELSE st

\* lines 5-9, called for matches matches: the values written, the counter
\* being id_counter at the first call and one more at each later call
RECURSIVE renumber_id(_, _)
renumber_id(counter, matches) ==
    IF matches = 0 THEN <<>>
    ELSE <<counter>> \o renumber_id(counter + 1, matches - 1)

\* lines 105-112: re.sub calls renumber_id once per match, left to right; the
\* line is appended with the comment of lines 99-101 removed
renumber_and_append(st, line) ==
    [st EXCEPT
        !.id_counter = @ + line.ids,
        !.processed_lines =
            Append(@, [has |-> line.has \ {COMMENT_AFTER_TEXT},
                       ids |-> renumber_id(st.id_counter, line.ids)])]

\* lines 42-112: one iteration of the loop over the lines of a file
process_line(st, line) ==
    IF UDS_OPEN \in line.has THEN [st EXCEPT !.inside_userdefined_symbols = TRUE]
    ELSE IF UDS_CLOSE \in line.has THEN [st EXCEPT !.inside_userdefined_symbols = FALSE]
    ELSE IF st.inside_userdefined_symbols THEN st
    ELSE IF CC_OPEN \in line.has THEN [st EXCEPT !.inside_cheatcodes = TRUE]
    ELSE IF CC_CLOSE \in line.has THEN [st EXCEPT !.inside_cheatcodes = FALSE]
    ELSE IF st.inside_cheatcodes THEN st
    ELSE IF UDS_EMPTY \in line.has THEN st
    ELSE LET marked == description_marker(st, line)
         IN  IF LAST_STATE \in line.has THEN marked
             ELSE IF COMMENT_ONLY \in line.has THEN marked
             ELSE renumber_and_append(marked, line)

\* A file is read as runs of equal lines, [line, times]; the loop of line 41
\* takes the lines of a run one after the other: the first half of the run,
\* then the rest from the state mid the first half ends in.
RECURSIVE process_run(_, _, _)
process_run(st, line, times) ==
    IF times = 0 THEN st
    ELSE IF times = 1 THEN process_line(st, line)
    ELSE CHOOSE end \in {process_run(mid, line, times - times \div 2) :
                            mid \in {process_run(st, line, times \div 2)}} : TRUE

RECURSIVE process_lines(_, _)
process_lines(st, lines) ==
    IF lines = <<>> THEN st
    ELSE CHOOSE end \in {process_lines(mid, Tail(lines)) :
                            mid \in {process_run(st, Head(lines).line,
                                                  Head(lines).times)}} : TRUE

\* the globals of the script as one record
Globals ==
    [id_counter |-> id_counter,
     binds_found |-> binds_found, parkour_mode_found |-> parkour_mode_found,
     extra_found |-> extra_found, vault_landing_found |-> vault_landing_found,
     inside_userdefined_symbols |-> inside_userdefined_symbols,
     inside_cheatcodes |-> inside_cheatcodes,
     processed_lines |-> processed_lines]

\* lines 21-116: the next .CT file of the walk is read, processed line by
\* line and overwritten with processed_lines
ProcessFile ==
    /\ pc = "walk"
    /\ Len(written) < Len(files)
    /\ LET lines == files[Len(written) + 1]
           end   == CHOOSE st \in {process_lines(file_start(Globals), lines)} : TRUE
       IN  /\ id_counter' = end.id_counter
           /\ binds_found' = end.binds_found
           /\ parkour_mode_found' = end.parkour_mode_found
           /\ extra_found' = end.extra_found
           /\ vault_landing_found' = end.vault_landing_found
           /\ inside_userdefined_symbols' = end.inside_userdefined_symbols
           /\ inside_cheatcodes' = end.inside_cheatcodes
           /\ processed_lines' = end.processed_lines
           /\ written' = Append(written, end.processed_lines)
    /\ UNCHANGED <<pc, files, coreVars, tableVars, splitVars, mainVars>>

NextClean == ProcessFile

-----------------------------------------------------------------------------
(* Inputs of the cleanup pass *)

Run(line, times) == [line |-> line, times |-> times]

IdLine == Line({}, 1)

DescriptionLines == {Line({d}, 0) : d \in {BINDS, PARKOUR_MODE, EXTRA, VAULT_LANDING}}

IdleCore ==
    /\ Idle /\ IdleExtract /\ IdleTable /\ IdleSplit /\ IdleMain

InitGlobals ==
    /\ id_counter = None /\ binds_found = None /\ parkour_mode_found = None
    /\ extra_found = None /\ vault_landing_found = None
    /\ inside_userdefined_symbols = None /\ inside_cheatcodes = None
    /\ processed_lines = None

\* Directory specification: several short files, in every walk order
MaxFiles == 2

ShortLines ==
    DescriptionLines \cup
    {IdLine, Line({COMMENT_AFTER_TEXT}, 1), Line({COMMENT_ONLY}, 0)} \cup
    {Line({t}, 0) : t \in {UDS_OPEN, UDS_CLOSE, UDS_EMPTY, CC_OPEN, CC_CLOSE}}

ShortFiles ==
    {<<>>} \cup {<<Run(l, 1)>> : l \in ShortLines}
           \cup {<<Run(l, 1), Run(IdLine, 1)>> : l \in ShortLines}
           \cup {<<Run(Line({UDS_OPEN}, 0), 1), Run(IdLine, 1),
                   Run(Line({UDS_CLOSE}, 0), 1), Run(IdLine, 1)>>,
                 <<Run(Line({CC_OPEN}, 0), 1), Run(IdLine, 1),
                   Run(Line({CC_CLOSE}, 0), 1), Run(IdLine, 1)>>}

InitCleanAll ==
    /\ pc = "walk"
    /\ files \in SeqsUpTo(ShortFiles, MaxFiles)
    /\ written = <<>>
    /\ InitGlobals /\ IdleCore

SpecCleanAll == InitCleanAll /\ [][NextClean]_vars

\* File specification: one file of a few runs of lines, with runs of ID
\* lines as long as a stretch of ID values between two descriptions and longer
MaxRuns == 3

RunsOfLines ==
    {Run(IdLine, n) : n \in {1, BindsStart, BindsStart + 1}} \cup
    {Run(l, 1) : l \in DescriptionLines} \cup
    {Run(Line({CC_OPEN}, 0), 1)} \cup
    {Run(Line({LAST_STATE}, 1), 1)}

InitCleanFile ==
    /\ pc = "walk"
    /\ files \in {<<f>> : f \in SeqsUpTo(RunsOfLines, MaxRuns)}
    /\ written = <<>>
    /\ InitGlobals /\ IdleCore

SpecCleanFile == InitCleanFile /\ [][NextClean]_vars

-----------------------------------------------------------------------------
(* Properties of the cleanup pass *)

\* the globals of a run that has not processed any file before this one
FirstFileGlobals ==
    [id_counter |-> 0,
     binds_found |-> FALSE, parkour_mode_found |-> FALSE,
     extra_found |-> FALSE, vault_landing_found |-> FALSE,
     inside_userdefined_symbols |-> FALSE, inside_cheatcodes |-> FALSE,
     processed_lines |-> <<>>]

\* C17: the lines written for a file, the ID values among them, depend on the
\* content of that file only: they are the lines the pass writes when the
\* file is the first it processes, whichever files were processed before it,
\* and two files with the same content are written the same.
C17_WrittenFromOwnContent ==
    /\ \A i \in 1..Len(written) :
          written[i] = process_lines(FirstFileGlobals, files[i]).processed_lines
    /\ \A i, j \in 1..Len(written) :
          files[i] = files[j] => written[i] = written[j]

\* a file with an ID was processed after a file that left the counter past
\* the first description and after one that ended inside a removed section
C17_Witness ==
    /\ Len(written) = 2
    /\ files[1] \in {<<Run(Line({BINDS}, 0), 1), Run(IdLine, 1)>>,
                      <<Run(Line({UDS_OPEN}, 0), 1), Run(IdLine, 1)>>}
    /\ files[2] = <<Run(IdLine, 1)>>
    /\ written[2] = <<[has |-> {}, ids |-> <<0>>]>>

\* the ID values written for a file, in line order and within a line from
\* left to right
RECURSIVE IdsWritten(_, _, _)
IdsWritten(lines, first, last) ==
    IF first > last THEN <<>>
    ELSE IF first = last THEN lines[first].ids
    ELSE IdsWritten(lines, first, (first + last) \div 2)
            \o IdsWritten(lines, (first + last) \div 2 + 1, last)

\* the place of a line's description among the four, 0 for a line without one
DescriptionRank(line) ==
    IF BINDS \in line.has THEN 1
    ELSE IF PARKOUR_MODE \in line.has THEN 2
    ELSE IF EXTRA \in line.has THEN 3
    ELSE IF VAULT_LANDING \in line.has THEN 4
    ELSE 0

\* each description occurs at most once in the file, and in this order
RECURSIVE DescriptionsOnceInOrder(_, _)
DescriptionsOnceInOrder(runs, rank) ==
    IF runs = <<>> THEN TRUE
    ELSE LET r == DescriptionRank(Head(runs).line)
         IN  IF r = 0 \/ Head(runs).times = 0
             THEN DescriptionsOnceInOrder(Tail(runs), rank)
             ELSE /\ Head(runs).times = 1
                  /\ r > rank
                  /\ DescriptionsOnceInOrder(Tail(runs), r)

\* the ID values between two descriptions
SegmentLimit == ParkourModeStart - BindsStart

\* the lines the claim lists as dropped: inside says a removed section is open
Dropped(line, inside) ==
    \/ inside
    \/ line.has \cap {UDS_OPEN, UDS_CLOSE, CC_OPEN, CC_CLOSE, UDS_EMPTY} # {}
    \/ LAST_STATE \in line.has
    \/ COMMENT_ONLY \in line.has

\* at most SegmentLimit IDs stand on lines not dropped in each stretch of the
\* file that a description follows; count is the number so far in the stretch
RECURSIVE SegmentsWithinLimit(_, _, _)
SegmentsWithinLimit(runs, inside, count) ==
    IF runs = <<>> THEN TRUE
    ELSE LET line  == Head(runs).line
             times == Head(runs).times
             now   == IF line.has \cap {UDS_OPEN, CC_OPEN} # {} THEN TRUE
                      ELSE IF line.has \cap {UDS_CLOSE, CC_CLOSE} # {} THEN FALSE
                      ELSE inside
             more  == IF Dropped(line, inside) THEN 0 ELSE line.ids * times
         IN  IF DescriptionRank(line) # 0 /\ times > 0
             THEN count <= SegmentLimit /\ SegmentsWithinLimit(Tail(runs), now, more)
             ELSE SegmentsWithinLimit(Tail(runs), now, count + more)

Starts == {BindsStart, ParkourModeStart, ExtraStart, VaultLandingStart}

====
